---- MODULE Spec2Model ----
(***************************************************************************)
(* grok-ask (src/cli/src/main.rs): one invocation of the command-line      *)
(* client.  main resolves the mode from the parsed arguments, calls        *)
(* create_request (credential lookup, request construction, one POST,      *)
(* body parse) and prints format_response of the reply.                    *)
(*                                                                         *)
(* Rust Option<T> is a sequence of length at most one: None is <<>> and    *)
(* Some(v) is <<v>>.  Strings are TLA+ strings; their text is the source's.*)
(***************************************************************************)
EXTENDS Integers, Sequences, FiniteSets, TLC

VARIABLES
    pc,        \* position of main: "main", "create_request", "sending",
               \* "parsing", "format", "exit"
    cli,       \* the parsed arguments (struct Cli)
    env_key,   \* Option<String>: the XAI_API_KEY environment variable
    args,      \* Option: the eight arguments main passes to create_request
    request,   \* Option<GrokRequest>: the request built by create_request
    wire,      \* Option: the JSON body handed to the transport
    posts,     \* number of POSTs issued by this run
    response,  \* Option<GrokResponse>: the parsed reply
    stdout,    \* sequence of lines printed with println!
    stderr,    \* sequence of diagnostics printed to standard error
    exit_code  \* Option<int>: the exit status once the process has ended

vars == <<pc, cli, env_key, args, request, wire, posts, response, stdout,
          stderr, exit_code>>

----------------------------------------------------------------------------
(* Option<T> *)

None == <<>>

Some(v) == <<v>>

IsSome(o) == Len(o) = 1

IsNone(o) == Len(o) = 0

\* Option::unwrap_or
UnwrapOr(o, d) == IF IsSome(o) THEN o[1] ELSE d

\* the byte string t occurs in s (str::contains)
Contains(s, t) ==
    \E i \in 1..(Len(s) - Len(t) + 1) : SubSeq(s, i, i + Len(t) - 1) = t

----------------------------------------------------------------------------
(* Constants of the program *)

API_ENDPOINT == "https://api.x.ai/v1/responses"

MODEL == "grok-4-1-fast-non-reasoning"

REASONING_MODEL == "grok-4-1-fast"

\* #[arg(long, default_value = "10")] max_results
DefaultMaxResults == 10

SearchInstructionHead ==
    "Search for the query and return results in this exact format:\n\n---\nTITLE: [page title]\nURL: [full url]\nSNIPPET: [2-3 sentence excerpt]\n---\n\nReturn up to "

XSearchInstructionHead ==
    "Search X for the query and return results in this exact format:\n\n---\nAUTHOR: @[handle]\nPOST: [post content]\nURL: [full x.com url]\n---\n\nReturn up to "

InstructionTail == " results. No additional commentary or analysis."

\* the literal of the --search branch
SearchInstructionLiteral ==
    "Search for the query and return results in this exact format:\n\n---\nTITLE: [page title]\nURL: [full url]\nSNIPPET: [2-3 sentence excerpt]\n---\n\nReturn up to 10 results. No additional commentary or analysis."

\* the literal of the --x-search branch
XSearchInstructionLiteral ==
    "Search X for the query and return results in this exact format:\n\n---\nAUTHOR: @[handle]\nPOST: [post content]\nURL: [full x.com url]\n---\n\nReturn up to 10 results. No additional commentary or analysis."

AskInstruction ==
    "Be concise and factual. Cite sources when using web information."

ThinkInstruction == "Think step by step. Be thorough and cite sources."

XAskInstruction ==
    "Be concise and factual. Cite X posts when referencing discussions or opinions."

\* SearchInstruction with the count written into the text
SearchInstruction_FixedCount(max_results) == SearchInstructionLiteral

\* format!("... Return up to {} results. ...", max_results), Commands::Search
SearchInstruction(max_results) ==
    SearchInstructionHead \o ToString(max_results) \o InstructionTail

\* format!("... Return up to {} results. ...", max_results), Commands::XSearch
XSearchInstruction(max_results) ==
    XSearchInstructionHead \o ToString(max_results) \o InstructionTail

----------------------------------------------------------------------------
(* The command line: struct Cli and enum Commands, as clap parses them *)

\* the shorthand mode flags, in the order main tests them
ModeFlags == <<"search", "ask", "think", "chat", "x_search", "x_ask">>

\* query texts given on the command line (the empty string is accepted)
Queries == {"", "rust async"}

\* -r / --response-id given before the subcommand, and after it
TopResponseIds == {"resp_top"}

SubResponseIds == {"resp_sub"}

\* --max-results: the default and one explicit value
MaxResultsValues == {DefaultMaxResults, 5}

\* the largest number of options, flags and subcommands on one command line
MaxArgs == 3

OptOf(S) == {None} \cup {Some(v) : v \in S}

\* how many command-line words set an Option / a bool flag
OptW(o) == Len(o)

BoolW(b) == IF b THEN 1 ELSE 0

\* the six filter options: --allowed-handles, --excluded-handles,
\* --from-date, --to-date, --enable-images, --enable-video
FilterValues ==
    [allowed_handles : OptOf({<<"alice">>}),
     excluded_handles : OptOf({<<"bob", "carol">>}),
     from_date : OptOf({"2024-01-01"}),
     to_date : OptOf({"2024-12-31"}),
     enable_images : BOOLEAN,
     enable_video : BOOLEAN]

FilterW(f) ==
    OptW(f.allowed_handles) + OptW(f.excluded_handles) + OptW(f.from_date)
    + OptW(f.to_date) + BoolW(f.enable_images) + BoolW(f.enable_video)

\* the shorthand flags: each absent or given with a query
FlagValues ==
    [search : OptOf(Queries), ask : OptOf(Queries), think : OptOf(Queries),
     chat : OptOf(Queries), x_search : OptOf(Queries), x_ask : OptOf(Queries)]

FlagW(f) ==
    OptW(f.search) + OptW(f.ask) + OptW(f.think) + OptW(f.chat)
    + OptW(f.x_search) + OptW(f.x_ask)

\* enum OutputFormat
OutputFormat == {"Text", "Json"}

\* enum Commands: the subcommands with their own arguments
CommandValues ==
    {[kind |-> "Search", query |-> q, max_results |-> m] :
        q \in Queries, m \in MaxResultsValues}
    \cup
    {[kind |-> k, query |-> q, response_id |-> r] :
        k \in {"Ask", "Think", "Chat"}, q \in Queries, r \in OptOf(SubResponseIds)}
    \cup
    {[kind |-> "XSearch", query |-> q, max_results |-> m,
      allowed_handles |-> f.allowed_handles,
      excluded_handles |-> f.excluded_handles,
      from_date |-> f.from_date, to_date |-> f.to_date,
      enable_images |-> f.enable_images, enable_video |-> f.enable_video] :
        q \in Queries, m \in MaxResultsValues, f \in FilterValues}
    \cup
    {[kind |-> "XAsk", query |-> q, response_id |-> r,
      allowed_handles |-> f.allowed_handles,
      excluded_handles |-> f.excluded_handles,
      from_date |-> f.from_date, to_date |-> f.to_date,
      enable_images |-> f.enable_images, enable_video |-> f.enable_video] :
        q \in Queries, r \in OptOf(SubResponseIds), f \in FilterValues}

CommandW(c) ==
    1
    + (IF "max_results" \in DOMAIN c /\ c.max_results # DefaultMaxResults
       THEN 1 ELSE 0)
    + (IF "response_id" \in DOMAIN c THEN OptW(c.response_id) ELSE 0)
    + (IF "from_date" \in DOMAIN c THEN FilterW(c) ELSE 0)

\* Option<Commands>, top-level filters and flag sets by the words they take
CommandsWithin ==
    [k \in 0..MaxArgs |->
        {x \in OptOf(CommandValues) :
            (IF IsSome(x) THEN CommandW(x[1]) ELSE 0) <= k}]

FiltersWithin == [k \in 0..MaxArgs |-> {x \in FilterValues : FilterW(x) <= k}]

FlagsWithin == [k \in 0..MaxArgs |-> {x \in FlagValues : FlagW(x) <= k}]

\* struct Cli from the flags f, the top-level filter options t, the
\* top-level response id r, the output format o and the subcommand c
MakeCli(f, t, r, o, c) ==
    [command |-> c,
     search |-> f.search, ask |-> f.ask, think |-> f.think,
     chat |-> f.chat, x_search |-> f.x_search, x_ask |-> f.x_ask,
     response_id |-> r,
     allowed_handles |-> t.allowed_handles,
     excluded_handles |-> t.excluded_handles,
     from_date |-> t.from_date, to_date |-> t.to_date,
     enable_images |-> t.enable_images,
     enable_video |-> t.enable_video,
     output |-> o]

\* v is a command line of at most MaxArgs words that clap accepts
ParsedCli(v) ==
    \E f \in FlagsWithin[MaxArgs] :
      \E t \in FiltersWithin[MaxArgs - FlagW(f)] :
        \E r \in OptOf(TopResponseIds) :
          \E o \in OutputFormat :
            LET left == MaxArgs - FlagW(f) - FilterW(t) - OptW(r)
                        - (IF o = "Json" THEN 1 ELSE 0) IN
            /\ left >= 0
            /\ \E c \in CommandsWithin[left] : v = MakeCli(f, t, r, o, c)

----------------------------------------------------------------------------
(* main: mode resolution, the if / else-if chain and the match on Commands *)

\* the argument list of one call of create_request
CreateRequestArgs(query, previous_response_id, system_instruction, max_tokens, use_web_search, use_x_search, x_search_config, use_reasoning) ==
    [query |-> query,
     previous_response_id |-> previous_response_id,
     system_instruction |-> system_instruction,
     max_tokens |-> max_tokens,
     use_web_search |-> use_web_search,
     use_x_search |-> use_x_search,
     x_search_config |-> x_search_config,
     use_reasoning |-> use_reasoning]

\* struct XSearchConfig filled from the six filter fields of c (the Cli
\* for a shorthand flag, the subcommand for x-search / x-ask)
XSearchConfig(c) ==
    [allowed_handles |-> c.allowed_handles,
     excluded_handles |-> c.excluded_handles,
     from_date |-> c.from_date,
     to_date |-> c.to_date,
     enable_images |-> c.enable_images,
     enable_video |-> c.enable_video]

\* XSearchConfig::default()
XSearchConfigDefault ==
    [allowed_handles |-> None, excluded_handles |-> None, from_date |-> None,
     to_date |-> None, enable_images |-> FALSE, enable_video |-> FALSE]

\* match command { ... }: the call made for a subcommand
CommandCall(command) ==
    CASE command.kind = "Search" ->
           CreateRequestArgs(command.query, None,
               Some(SearchInstruction(command.max_results)),
               4096, TRUE, FALSE, None, FALSE)
      [] command.kind = "Ask" ->
           CreateRequestArgs(command.query, command.response_id,
               Some(AskInstruction), 8192, TRUE, FALSE, None, FALSE)
      [] command.kind = "Think" ->
           CreateRequestArgs(command.query, command.response_id,
               Some(ThinkInstruction), 16384, TRUE, FALSE, None, TRUE)
      [] command.kind = "Chat" ->
           CreateRequestArgs(command.query, command.response_id,
               None, 8192, FALSE, FALSE, None, FALSE)
      [] command.kind = "XSearch" ->
           CreateRequestArgs(command.query, None,
               Some(XSearchInstruction(command.max_results)),
               4096, FALSE, TRUE, Some(XSearchConfig(command)), FALSE)
      [] command.kind = "XAsk" ->
           CreateRequestArgs(command.query, command.response_id,
               Some(XAskInstruction), 8192, FALSE, TRUE,
               Some(XSearchConfig(command)), FALSE)

\* the chain of main: the first shorthand flag that is set wins, then the
\* subcommand; None when nothing selects a mode (the final else)
MainCall(c) ==
    IF IsSome(c.search) THEN
        Some(CreateRequestArgs(c.search[1], c.response_id,
            Some(SearchInstructionLiteral), 4096, TRUE, FALSE, None, FALSE))
    ELSE IF IsSome(c.ask) THEN
        Some(CreateRequestArgs(c.ask[1], c.response_id,
            Some(AskInstruction), 8192, TRUE, FALSE, None, FALSE))
    ELSE IF IsSome(c.think) THEN
        Some(CreateRequestArgs(c.think[1], c.response_id,
            Some(ThinkInstruction), 16384, TRUE, FALSE, None, TRUE))
    ELSE IF IsSome(c.chat) THEN
        Some(CreateRequestArgs(c.chat[1], c.response_id,
            None, 8192, FALSE, FALSE, None, FALSE))
    ELSE IF IsSome(c.x_search) THEN
        Some(CreateRequestArgs(c.x_search[1], c.response_id,
            Some(XSearchInstructionLiteral), 4096, FALSE, TRUE,
            Some(XSearchConfig(c)), FALSE))
    ELSE IF IsSome(c.x_ask) THEN
        Some(CreateRequestArgs(c.x_ask[1], c.response_id,
            Some(XAskInstruction), 8192, FALSE, TRUE,
            Some(XSearchConfig(c)), FALSE))
    ELSE IF IsSome(c.command) THEN
        Some(CommandCall(c.command[1]))
    ELSE None

----------------------------------------------------------------------------
(* create_request: the request structures *)

\* struct Message
Message(role, content) == [role |-> role, content |-> content]

\* BuildMessages with a system message even without an instruction
BuildMessages_AlwaysSystem(a) ==
    <<Message("system", UnwrapOr(a.system_instruction, "")),
      Message("user", a.query)>>

\* messages: the system instruction if provided, then the user query
BuildMessages(a) ==
    (IF IsSome(a.system_instruction)
     THEN <<Message("system", a.system_instruction[1])>>
     ELSE <<>>)
    \o <<Message("user", a.query)>>

\* Tool::WebSearch(WebSearchTool { .. })
WebSearchTool ==
    [type |-> "web_search", enable_image_understanding |-> None]

\* XSearchTool with the two flags copied as Some(flag)
XSearchTool_ExplicitFlags(x_search_config) ==
    LET config == UnwrapOr(x_search_config, XSearchConfigDefault) IN
    [type |-> "x_search",
     allowed_x_handles |-> config.allowed_handles,
     excluded_x_handles |-> config.excluded_handles,
     from_date |-> config.from_date,
     to_date |-> config.to_date,
     enable_image_understanding |-> Some(config.enable_images),
     enable_video_understanding |-> Some(config.enable_video)]

\* Tool::XSearch(XSearchTool { .. }) from x_search_config.unwrap_or_default()
XSearchTool(x_search_config) ==
    LET config == UnwrapOr(x_search_config, XSearchConfigDefault) IN
    [type |-> "x_search",
     allowed_x_handles |-> config.allowed_handles,
     excluded_x_handles |-> config.excluded_handles,
     from_date |-> config.from_date,
     to_date |-> config.to_date,
     enable_image_understanding |->
         IF config.enable_images THEN Some(TRUE) ELSE None,
     enable_video_understanding |->
         IF config.enable_video THEN Some(TRUE) ELSE None]

\* BuildTools pushing web_search whatever use_web_search says
BuildTools_WebAlways(a) ==
    <<WebSearchTool>>
    \o (IF a.use_x_search THEN <<XSearchTool(a.x_search_config)>> ELSE <<>>)

\* tools: web_search first if enabled, then x_search if enabled
BuildTools(a) ==
    (IF a.use_web_search THEN <<WebSearchTool>> ELSE <<>>)
    \o (IF a.use_x_search THEN <<XSearchTool(a.x_search_config)>> ELSE <<>>)

\* SelectModel with the two models swapped
SelectModel_Swapped(a) == IF a.use_reasoning THEN MODEL ELSE REASONING_MODEL

\* let model = if use_reasoning { REASONING_MODEL } else { MODEL }
SelectModel(a) == IF a.use_reasoning THEN REASONING_MODEL ELSE MODEL

\* BuildRequest leaving max_output_tokens unset
BuildRequest_NoBudget(a) ==
    [model |-> SelectModel(a),
     input |-> BuildMessages(a),
     store |-> TRUE,
     max_output_tokens |-> None,
     previous_response_id |-> a.previous_response_id,
     tools |-> BuildTools(a)]

\* struct GrokRequest as create_request fills it
BuildRequest(a) ==
    [model |-> SelectModel(a),
     input |-> BuildMessages(a),
     store |-> TRUE,
     max_output_tokens |-> Some(a.max_tokens),
     previous_response_id |-> a.previous_response_id,
     tools |-> BuildTools(a)]

----------------------------------------------------------------------------
(* serde: JSON values and the derived Serialize implementations *)

JString(s) == [json |-> "string", s |-> s]

JNumber(n) == [json |-> "number", n |-> n]

JBool(b) == [json |-> "bool", b |-> b]

JNull == [json |-> "null"]

JArray(a) == [json |-> "array", a |-> a]

\* an object is the sequence of its members, in the order they are written
JObject(m) == [json |-> "object", m |-> m]

Member(k, v) == [k |-> k, v |-> v]

HasKey(obj, key) == \E i \in 1..Len(obj.m) : obj.m[i].k = key

\* the value of the first member called key
Get(obj, key) ==
    obj.m[CHOOSE i \in 1..Len(obj.m) :
            obj.m[i].k = key /\ \A j \in 1..(i - 1) : obj.m[j].k # key].v

JStrings(v) == JArray([i \in 1..Len(v) |-> JString(v[i])])

\* #[serde(skip_serializing_if = "Option::is_none")] on an Option<String>
SkipNoneString(key, o) ==
    IF IsNone(o) THEN <<>> ELSE <<Member(key, JString(o[1]))>>

\* #[serde(skip_serializing_if = "Option::is_none")] on an Option<u32>
SkipNoneNumber(key, o) ==
    IF IsNone(o) THEN <<>> ELSE <<Member(key, JNumber(o[1]))>>

\* #[serde(skip_serializing_if = "Option::is_none")] on an Option<bool>
SkipNoneBool(key, o) ==
    IF IsNone(o) THEN <<>> ELSE <<Member(key, JBool(o[1]))>>

\* #[serde(skip_serializing_if = "Option::is_none")] on an Option<Vec<String>>
SkipNoneStrings(key, o) ==
    IF IsNone(o) THEN <<>> ELSE <<Member(key, JStrings(o[1]))>>

\* #[derive(Serialize)] struct Message
SerializeMessage(m) ==
    JObject(<<Member("role", JString(m.role)),
              Member("content", JString(m.content))>>)

\* #[derive(Serialize)] struct WebSearchTool
SerializeWebSearchTool(t) ==
    JObject(<<Member("type", JString(t.type))>>
            \o SkipNoneBool("enable_image_understanding",
                            t.enable_image_understanding))

\* #[derive(Serialize)] struct XSearchTool
SerializeXSearchTool(t) ==
    JObject(<<Member("type", JString(t.type))>>
            \o SkipNoneStrings("allowed_x_handles", t.allowed_x_handles)
            \o SkipNoneStrings("excluded_x_handles", t.excluded_x_handles)
            \o SkipNoneString("from_date", t.from_date)
            \o SkipNoneString("to_date", t.to_date)
            \o SkipNoneBool("enable_image_understanding",
                            t.enable_image_understanding)
            \o SkipNoneBool("enable_video_understanding",
                            t.enable_video_understanding))

\* #[serde(untagged)] enum Tool: the variant's own serialization
SerializeTool(t) ==
    IF "allowed_x_handles" \in DOMAIN t
    THEN SerializeXSearchTool(t)
    ELSE SerializeWebSearchTool(t)

\* tools serialized without skip_serializing_if
SkipEmptyTools_NeverSkip(key, tools) ==
    <<Member(key, JArray([i \in 1..Len(tools) |-> SerializeTool(tools[i])]))>>

\* #[serde(skip_serializing_if = "Vec::is_empty")] tools
SkipEmptyTools(key, tools) ==
    IF Len(tools) = 0 THEN <<>>
    ELSE <<Member(key, JArray([i \in 1..Len(tools) |-> SerializeTool(tools[i])]))>>

\* #[derive(Serialize)] struct GrokRequest
SerializeRequest(r) ==
    JObject(<<Member("model", JString(r.model)),
              Member("input",
                  JArray([i \in 1..Len(r.input) |-> SerializeMessage(r.input[i])])),
              Member("store", JBool(r.store))>>
            \o SkipNoneNumber("max_output_tokens", r.max_output_tokens)
            \o SkipNoneString("previous_response_id", r.previous_response_id)
            \o SkipEmptyTools("tools", r.tools))

\* client.post(API_ENDPOINT).header(..).header(..).json(&request)
HttpPost(api_key, r) ==
    [method |-> "POST",
     url |-> API_ENDPOINT,
     authorization |-> "Bearer " \o api_key,
     content_type |-> "application/json",
     body |-> SerializeRequest(r)]

----------------------------------------------------------------------------
(* The response structures and their derived Serialize (no field is skipped) *)

NullOrString(o) == IF IsNone(o) THEN JNull ELSE JString(o[1])

NullOrNumber(o) == IF IsNone(o) THEN JNull ELSE JNumber(o[1])

\* struct Annotation and struct WebSearchResult: { url, title }
SerializeLink(e) ==
    JObject(<<Member("url", NullOrString(e.url)),
              Member("title", NullOrString(e.title))>>)

NullOrLinks(o) ==
    IF IsNone(o) THEN JNull
    ELSE JArray([i \in 1..Len(o[1]) |-> SerializeLink(o[1][i])])

\* struct Content
SerializeContent(c) ==
    JObject(<<Member("type", JString(c.type)),
              Member("text", NullOrString(c.text)),
              Member("annotations", NullOrLinks(c.annotations))>>)

\* struct Output
SerializeOutput(out) ==
    JObject(<<Member("type", JString(out.type)),
              Member("content",
                  IF IsNone(out.content) THEN JNull
                  ELSE JArray([i \in 1..Len(out.content[1]) |->
                                  SerializeContent(out.content[1][i])])),
              Member("results", NullOrLinks(out.results))>>)

\* struct Usage
SerializeUsage(u) ==
    JObject(<<Member("input_tokens", NullOrNumber(u.input_tokens)),
              Member("output_tokens", NullOrNumber(u.output_tokens))>>)

\* struct ApiError
SerializeApiError(e) ==
    JObject(<<Member("message", NullOrString(e.message)),
              Member("code", NullOrString(e.code))>>)

\* struct GrokResponse
SerializeResponse(r) ==
    JObject(<<Member("id", NullOrString(r.id)),
              Member("status", NullOrString(r.status)),
              Member("output",
                  IF IsNone(r.output) THEN JNull
                  ELSE JArray([i \in 1..Len(r.output[1]) |->
                                  SerializeOutput(r.output[1][i])])),
              Member("usage",
                  IF IsNone(r.usage) THEN JNull ELSE SerializeUsage(r.usage[1])),
              Member("error",
                  IF IsNone(r.error) THEN JNull
                  ELSE SerializeApiError(r.error[1]))>>)

\* serde_json string escaping of the quote, the backslash and the newline
RECURSIVE EscapeJson(_)
EscapeJson(s) ==
    IF Len(s) = 0 THEN ""
    ELSE LET ch == SubSeq(s, 1, 1) IN
         (CASE ch = "\"" -> "\\\""
            [] ch = "\\" -> "\\\\"
            [] ch = "\n" -> "\\n"
            [] OTHER -> ch)
         \o EscapeJson(SubSeq(s, 2, Len(s)))

\* two spaces per nesting level
RECURSIVE Indent(_)
Indent(n) == IF n = 0 THEN "" ELSE "  " \o Indent(n - 1)

\* serde_json::to_string_pretty: PrettyFormatter at nesting level n
RECURSIVE Pretty(_, _)
RECURSIVE PrettyMembers(_, _, _)
RECURSIVE PrettyItems(_, _, _)
Pretty(v, n) ==
    CASE v.json = "null" -> "null"
      [] v.json = "bool" -> IF v.b THEN "true" ELSE "false"
      [] v.json = "number" -> ToString(v.n)
      [] v.json = "string" -> "\"" \o EscapeJson(v.s) \o "\""
      [] v.json = "array" ->
           IF Len(v.a) = 0 THEN "[]"
           ELSE "[\n" \o PrettyItems(v.a, 1, n + 1) \o "\n" \o Indent(n) \o "]"
      [] v.json = "object" ->
           IF Len(v.m) = 0 THEN "{}"
           ELSE "{\n" \o PrettyMembers(v.m, 1, n + 1) \o "\n" \o Indent(n) \o "}"

PrettyItems(a, i, n) ==
    Indent(n) \o Pretty(a[i], n)
    \o (IF i = Len(a) THEN "" ELSE ",\n" \o PrettyItems(a, i + 1, n))

PrettyMembers(m, i, n) ==
    Indent(n) \o "\"" \o EscapeJson(m[i].k) \o "\": " \o Pretty(m[i].v, n)
    \o (IF i = Len(m) THEN "" ELSE ",\n" \o PrettyMembers(m, i + 1, n))

----------------------------------------------------------------------------
(* format_response *)

\* PushSource without the duplicate check
PushSource_NoDedup(sources, title, url) == Append(sources, <<title, url>>)

\* if !sources.iter().any(|(_, u)| u == url) { sources.push((title, url)) }
PushSource(sources, title, url) ==
    IF \E i \in 1..Len(sources) : sources[i][2] = url
    THEN sources
    ELSE Append(sources, <<title, url>>)

\* for ann in annotations / for result in results: entries with a url are
\* offered to the source list, the title defaulting to default_title
RECURSIVE CollectSources(_, _, _)
CollectSources(sources, entries, default_title) ==
    IF Len(entries) = 0 THEN sources
    ELSE LET e == Head(entries) IN
         CollectSources(
             IF IsSome(e.url)
             THEN PushSource(sources, UnwrapOr(e.title, default_title), e.url[1])
             ELSE sources,
             Tail(entries), default_title)

\* the loop body over one content element of a message
VisitContent(st, content) ==
    IF content.type = "output_text" \/ content.type = "text"
    THEN [output |-> st.output \o UnwrapOr(content.text, ""),
          sources |-> CollectSources(st.sources,
                          UnwrapOr(content.annotations, <<>>), "Source")]
    ELSE st

RECURSIVE VisitContents(_, _)
VisitContents(st, contents) ==
    IF Len(contents) = 0 THEN st
    ELSE VisitContents(VisitContent(st, Head(contents)), Tail(contents))

\* VisitOutput reading the results of an item of any other kind
VisitOutput_AnyResults(st, out) ==
    IF out.type = "message"
    THEN VisitContents(st, UnwrapOr(out.content, <<>>))
    ELSE [st EXCEPT !.sources =
              CollectSources(@, UnwrapOr(out.results, <<>>),
                  IF out.type = "x_search_result" THEN "X Post"
                  ELSE "Web Result")]

\* the loop body over one output item
VisitOutput(st, out) ==
    IF out.type = "message"
    THEN VisitContents(st, UnwrapOr(out.content, <<>>))
    ELSE IF out.type = "web_search_result"
    THEN [st EXCEPT !.sources =
              CollectSources(@, UnwrapOr(out.results, <<>>), "Web Result")]
    ELSE IF out.type = "x_search_result"
    THEN [st EXCEPT !.sources =
              CollectSources(@, UnwrapOr(out.results, <<>>), "X Post")]
    ELSE st

RECURSIVE VisitOutputs(_, _)
VisitOutputs(st, outputs) ==
    IF Len(outputs) = 0 THEN st
    ELSE VisitOutputs(VisitOutput(st, Head(outputs)), Tail(outputs))

\* Extract walking response.output from its last item to its first
Extract_Reversed(resp) ==
    LET outputs == UnwrapOr(resp.output, <<>>) IN
    VisitOutputs([output |-> "", sources |-> <<>>],
                 [i \in 1..Len(outputs) |-> outputs[Len(outputs) + 1 - i]])

\* the body text and the source list after the traversal of response.output
Extract(resp) ==
    VisitOutputs([output |-> "", sources |-> <<>>], UnwrapOr(resp.output, <<>>))

\* SourceLine numbering the lines by the enumerate index itself
SourceLine_ZeroBased(n, source) ==
    ToString(n - 1) \o ". [" \o source[1] \o "](" \o source[2] \o ")\n"

\* format!("{}. [{}]({})\n", i + 1, title, url)
SourceLine(n, source) ==
    ToString(n) \o ". [" \o source[1] \o "](" \o source[2] \o ")\n"

\* for (i, (title, url)) in sources.iter().enumerate(), from index i on
RECURSIVE SourceLines(_, _)
SourceLines(sources, i) ==
    IF i > Len(sources) THEN ""
    ELSE SourceLine(i, sources[i]) \o SourceLines(sources, i + 1)

\* the error check: format!("Error: {}\n", message or "Unknown error")
ErrorLine(error) ==
    "Error: " \o UnwrapOr(error.message, "Unknown error") \o "\n"

\* the text after the error check: body, sources, trailer, follow-up line
FormatBody(resp) ==
    LET st == Extract(resp) IN
    st.output
    \o (IF Len(st.sources) # 0
        THEN "\n\nSources:\n" \o SourceLines(st.sources, 1)
        ELSE "")
    \o "\n---\n"
    \o (IF IsSome(resp.id)
        THEN "To follow up, use response_id: " \o resp.id[1] \o "\n"
        ELSE "")

\* FormatText without the early return after the error line
FormatText_NoEarlyReturn(resp) ==
    (IF IsSome(resp.error) THEN ErrorLine(resp.error[1]) ELSE "")
    \o FormatBody(resp)

\* the OutputFormat::Text arm
FormatText(resp) ==
    IF IsSome(resp.error) THEN ErrorLine(resp.error[1]) ELSE FormatBody(resp)

\* FormatJson serializing only the items of the three known kinds
FormatJson_KnownKinds(resp) ==
    Pretty(SerializeResponse(
        [resp EXCEPT !.output =
            IF IsNone(@) THEN @
            ELSE Some(SelectSeq(@[1], LAMBDA out :
                     out.type \in {"message", "web_search_result",
                                   "x_search_result"}))]), 0)

\* the OutputFormat::Json arm
FormatJson(resp) == Pretty(SerializeResponse(resp), 0)

format_response(resp, format) ==
    IF format = "Json" THEN FormatJson(resp) ELSE FormatText(resp)

----------------------------------------------------------------------------
(* The replies of the service: GrokResponse values *)

\* the largest reply: one unit per output item, per content element, per
\* annotation or result entry, two for a populated error, and one for
\* asking for it as JSON
MaxSize == 4

\* struct Annotation / struct WebSearchResult: one url under two titles,
\* a second url, and an entry without url
LinkValues ==
    {[url |-> Some("https://a.example"), title |-> Some("Alpha")],
     [url |-> Some("https://a.example"), title |-> None],
     [url |-> Some("https://b.example"), title |-> Some("Beta")],
     [url |-> None, title |-> Some("Alpha")]}

\* the type and text of struct Content
ContentShapes ==
    {[type |-> "output_text", text |-> Some("Hello, ")],
     [type |-> "text", text |-> Some("world!")],
     [type |-> "output_text", text |-> None],
     [type |-> "refusal", text |-> Some("No.")]}

\* the type of struct Output
ItemKinds == {"message", "web_search_result", "x_search_result", "reasoning"}

\* Vec<Annotation> / Vec<WebSearchResult> of exactly k entries
RECURSIVE LinkSeqs(_)
LinkSeqs(k) ==
    IF k = 0 THEN {<<>>}
    ELSE LET shorter == LinkSeqs(k - 1) IN
         {<<l>> \o s : l \in LinkValues, s \in shorter}

\* Option<Vec<..>> of size k: absent when there is nothing to hold
OptLinks(k) == IF k = 0 THEN {None} ELSE {Some(s) : s \in LinkSeqs(k)}

\* struct Content of size w: itself and w - 1 annotations
ContentsOfSize(w) ==
    {[type |-> c.type, text |-> c.text, annotations |-> a] :
        c \in ContentShapes, a \in OptLinks(w - 1)}

\* the sequences of total size w, given the elements of each size (of[k])
\* and the sequences of each smaller size (seqs[k])
SeqsOfSize(of, seqs, w) ==
    UNION {{<<x>> \o s : x \in of[k],
                         s \in IF k = w THEN {<<>>} ELSE seqs[w - k]} :
             k \in 1..w}

\* <<the Vec<Content> of total size 1, .., of total size n>>
RECURSIVE ContentSeqTable(_)
ContentSeqTable(n) ==
    IF n = 0 THEN <<>>
    ELSE LET t == ContentSeqTable(n - 1) IN
         Append(t, SeqsOfSize([k \in 1..n |-> ContentsOfSize(k)], t, n))

\* Option<Vec<Content>> of total size w
OptContents(t, w) == IF w = 0 THEN {None} ELSE {Some(s) : s \in t[w]}

\* a field the item kind does not use: absent, or one fixed element
UnusedContent ==
    Some(<<[type |-> "output_text", text |-> Some("stray"),
            annotations |-> Some(<<[url |-> Some("https://c.example"),
                                    title |-> Some("Gamma")]>>)]>>)

UnusedResults ==
    Some(<<[url |-> Some("https://c.example"), title |-> Some("Gamma")]>>)

\* struct Output of size w, t the table of Vec<Content>
ItemsOfSize(t, w) ==
    {[type |-> "message", content |-> c, results |-> None] :
        c \in OptContents(t, w - 1)}
    \cup
    (IF w < 2 THEN {}
     ELSE {[type |-> "message", content |-> c, results |-> UnusedResults] :
             c \in OptContents(t, w - 2)})
    \cup
    {[type |-> k, content |-> None, results |-> r] :
        k \in ItemKinds \ {"message"}, r \in OptLinks(w - 1)}
    \cup
    (IF w < 2 THEN {}
     ELSE {[type |-> k, content |-> UnusedContent, results |-> r] :
             k \in ItemKinds \ {"message"}, r \in OptLinks(w - 2)})

\* <<the Vec<Output> of total size 1, .., of total size n>>
RECURSIVE OutputSeqTable(_, _)
OutputSeqTable(t, n) ==
    IF n = 0 THEN <<>>
    ELSE LET u == OutputSeqTable(t, n - 1) IN
         Append(u, SeqsOfSize([k \in 1..n |-> ItemsOfSize(t, k)], u, n))

\* Option<Vec<Output>> of total size at most w
OutputsWithin(w) ==
    LET u == OutputSeqTable(ContentSeqTable(w), w) IN
    {None, Some(<<>>)} \cup {Some(s) : s \in UNION {u[k] : k \in 1..w}}

\* struct ApiError
ErrorValues ==
    {[message |-> Some("Rate limit exceeded"), code |-> Some("429")],
     [message |-> None, code |-> None]}

\* the size of an Option<Vec<Annotation>>, a Vec<Content>, a Vec<Output>
LinksSize(o) == IF IsNone(o) THEN 0 ELSE Len(o[1])

RECURSIVE ContentsSize(_)
ContentsSize(contents) ==
    IF Len(contents) = 0 THEN 0
    ELSE 1 + LinksSize(Head(contents).annotations) + ContentsSize(Tail(contents))

RECURSIVE OutputsSize(_)
OutputsSize(outputs) ==
    IF Len(outputs) = 0 THEN 0
    ELSE 1 + (IF IsNone(Head(outputs).content) THEN 0
              ELSE ContentsSize(Head(outputs).content[1]))
         + LinksSize(Head(outputs).results) + OutputsSize(Tail(outputs))

\* the replies of size at most n whose output list is o
ResponsesFor(o, n) ==
    {[id |-> i,
      status |-> Some("completed"),
      output |-> o,
      usage |-> IF IsSome(i)
                THEN Some([input_tokens |-> Some(10), output_tokens |-> Some(20)])
                ELSE None,
      error |-> None] : i \in OptOf({"resp_123"})}
    \cup
    (IF (IF IsNone(o) THEN 0 ELSE OutputsSize(o[1])) + 2 <= n
     THEN {[id |-> i, status |-> Some("failed"), output |-> o, usage |-> None,
            error |-> Some(e)] : i \in OptOf({"resp_123"}), e \in ErrorValues}
     ELSE {})

----------------------------------------------------------------------------
(* One run of the program *)

\* XAI_API_KEY: unset, or set to a key
EnvKeyValues == OptOf({"xai-key"})

\* the replies a run receives: a grounded answer, an API error carrying
\* output items, and an empty completed reply
RunResponses ==
    {[id |-> Some("resp_123"), status |-> Some("completed"),
      output |-> Some(<<
          [type |-> "web_search_result", content |-> None,
           results |-> Some(<<[url |-> Some("https://a.example"),
                               title |-> Some("Alpha")]>>)],
          [type |-> "message",
           content |-> Some(<<[type |-> "output_text",
                               text |-> Some("Hello, "),
                               annotations |-> None]>>),
           results |-> None]>>),
      usage |-> Some([input_tokens |-> Some(10), output_tokens |-> Some(20)]),
      error |-> None],
     [id |-> Some("resp_123"), status |-> Some("failed"),
      output |-> Some(<<
          [type |-> "message",
           content |-> Some(<<[type |-> "output_text",
                               text |-> Some("Hello, "),
                               annotations |-> None]>>),
           results |-> None]>>),
      usage |-> None,
      error |-> Some([message |-> Some("Rate limit exceeded"),
                      code |-> Some("429")])],
     [id |-> None, status |-> Some("completed"), output |-> None,
      usage |-> None, error |-> None]}

\* the state after Cli::parse()
Init ==
    /\ pc = "main"
    /\ ParsedCli(cli)
    /\ env_key \in EnvKeyValues
    /\ args = None
    /\ request = None
    /\ wire = None
    /\ posts = 0
    /\ response = None
    /\ stdout = ""
    /\ stderr = <<>>
    /\ exit_code = None

\* main: a branch of the chain is taken and create_request is called
ResolveMode ==
    /\ pc = "main"
    /\ IsSome(MainCall(cli))
    /\ args' = MainCall(cli)
    /\ pc' = "create_request"
    /\ UNCHANGED <<cli, env_key, request, wire, posts, response, stdout,
                   stderr, exit_code>>

\* main: the final else, eprintln! and std::process::exit(1)
NoCommand ==
    /\ pc = "main"
    /\ IsNone(MainCall(cli))
    /\ stderr' = Append(stderr,
           "No command or query provided. Use --help for usage.")
    /\ exit_code' = Some(1)
    /\ pc' = "exit"
    /\ UNCHANGED <<cli, env_key, args, request, wire, posts, response, stdout>>

\* get_api_key()? fails: the error is returned from main
MissingApiKey ==
    /\ pc = "create_request"
    /\ IsNone(env_key)
    /\ stderr' = Append(stderr,
           "Error: XAI_API_KEY environment variable not set. Get your key from https://console.x.ai/")
    /\ exit_code' = Some(1)
    /\ pc' = "exit"
    /\ UNCHANGED <<cli, env_key, args, request, wire, posts, response, stdout>>

\* BuildGrokRequest going on without the key when XAI_API_KEY is unset
BuildGrokRequest_NoKeyCheck ==
    /\ pc = "create_request"
    /\ request' = Some(BuildRequest(args[1]))
    /\ pc' = "built"
    /\ UNCHANGED <<cli, env_key, args, wire, posts, response, stdout, stderr,
                   exit_code>>

\* create_request up to the GrokRequest value
BuildGrokRequest ==
    /\ pc = "create_request"
    /\ IsSome(env_key)
    /\ request' = Some(BuildRequest(args[1]))
    /\ pc' = "built"
    /\ UNCHANGED <<cli, env_key, args, wire, posts, response, stdout, stderr,
                   exit_code>>

\* client.post(..).json(&request).send(): the request goes out
PostRequest ==
    /\ pc = "built"
    /\ wire' = Some(HttpPost(env_key[1], request[1]))
    /\ posts' = posts + 1
    /\ pc' = "sending"
    /\ UNCHANGED <<cli, env_key, args, request, response, stdout, stderr,
                   exit_code>>

\* SendFails posting the request again after the failure
SendFails_Retry ==
    /\ pc = "sending"
    /\ stderr' = Append(stderr, "Error: Failed to send request")
    /\ pc' = "built"
    /\ UNCHANGED <<cli, env_key, args, request, wire, posts, response, stdout,
                   exit_code>>

\* .send().await fails: context("Failed to send request")?
SendFails ==
    /\ pc = "sending"
    /\ stderr' = Append(stderr, "Error: Failed to send request")
    /\ exit_code' = Some(1)
    /\ pc' = "exit"
    /\ UNCHANGED <<cli, env_key, args, request, wire, posts, response, stdout>>

\* .send().await returns: the elapsed time goes to standard error
SendCompletes ==
    /\ pc = "sending"
    /\ stderr' = Append(stderr, "Request completed in 0.42s")
    /\ pc' = "parsing"
    /\ UNCHANGED <<cli, env_key, args, request, wire, posts, response, stdout,
                   exit_code>>

\* ParseFails reporting the failure and going on with an empty reply
ParseFails_GoesOn ==
    /\ pc = "parsing"
    /\ stderr' = Append(stderr, "Error: Failed to parse response")
    /\ response' = Some([id |-> None, status |-> None, output |-> None,
                         usage |-> None, error |-> None])
    /\ pc' = "format"
    /\ UNCHANGED <<cli, env_key, args, request, wire, posts, stdout, exit_code>>

\* response.json().await fails: context("Failed to parse response")?
ParseFails ==
    /\ pc = "parsing"
    /\ stderr' = Append(stderr, "Error: Failed to parse response")
    /\ exit_code' = Some(1)
    /\ pc' = "exit"
    /\ UNCHANGED <<cli, env_key, args, request, wire, posts, response, stdout>>

\* response.json().await yields a GrokResponse
ParseSucceeds ==
    /\ pc = "parsing"
    /\ \E r \in RunResponses : response' = Some(r)
    /\ pc' = "format"
    /\ UNCHANGED <<cli, env_key, args, request, wire, posts, stdout, stderr,
                   exit_code>>

\* PrintResponse turning a populated error field into a failure of the run
PrintResponse_FailsOnApiError ==
    /\ pc = "format"
    /\ IF IsSome(response[1].error)
       THEN /\ stderr' = Append(stderr,
                    "Error: " \o UnwrapOr(response[1].error[1].message,
                                          "Unknown error"))
            /\ exit_code' = Some(1)
            /\ stdout' = stdout
       ELSE /\ stdout' = stdout \o format_response(response[1], cli.output)
                         \o "\n"
            /\ exit_code' = Some(0)
            /\ stderr' = stderr
    /\ pc' = "exit"
    /\ UNCHANGED <<cli, env_key, args, request, wire, posts, response>>

\* println!("{}", format_response(&result, &cli.output)); Ok(())
PrintResponse ==
    /\ pc = "format"
    /\ stdout' = stdout \o format_response(response[1], cli.output) \o "\n"
    /\ exit_code' = Some(0)
    /\ pc' = "exit"
    /\ UNCHANGED <<cli, env_key, args, request, wire, posts, response, stderr>>

Next ==
    \/ ResolveMode
    \/ NoCommand
    \/ MissingApiKey
    \/ BuildGrokRequest
    \/ PostRequest
    \/ SendFails
    \/ SendCompletes
    \/ ParseFails
    \/ ParseSucceeds
    \/ PrintResponse

Spec == Init /\ [][Next]_vars

----------------------------------------------------------------------------
(* format_response alone: any reply, either output format *)

NoFlags ==
    [search |-> None, ask |-> None, think |-> None, chat |-> None,
     x_search |-> None, x_ask |-> None]

\* the command line  --ask "rust async" [--output json]
AskCli(format) ==
    MakeCli([NoFlags EXCEPT !.ask = Some("rust async")], XSearchConfigDefault,
            None, format, None)

\* a run of AskCli that has parsed the reply and is about to print it
InitFormat ==
    \E format \in OutputFormat :
      /\ pc = "format"
      /\ cli = AskCli(format)
      /\ env_key = Some("xai-key")
      /\ args = MainCall(cli)
      /\ request = Some(BuildRequest(args[1]))
      /\ wire = Some(HttpPost(env_key[1], request[1]))
      /\ posts = 1
      /\ LET n == MaxSize - (IF format = "Json" THEN 1 ELSE 0) IN
         \E o \in OutputsWithin(n) :
           \E r \in ResponsesFor(o, n) : response = Some(r)
      /\ stdout = ""
      /\ stderr = <<"Request completed in 0.42s">>
      /\ exit_code = None

SpecFormat == InitFormat /\ [][PrintResponse]_vars

----------------------------------------------------------------------------
(* Properties of the text output *)

\* the number of places where t occurs in s
CountOcc(s, t) ==
    Cardinality({i \in 1..(Len(s) - Len(t) + 1) : SubSeq(s, i, i + Len(t) - 1) = t})

\* the entries of a list that carry a url, as offered to the source list
RECURSIVE Offered(_, _, _)
Offered(entries, kind, default_title) ==
    IF Len(entries) = 0 THEN <<>>
    ELSE (IF IsSome(Head(entries).url)
          THEN <<[kind |-> kind, url |-> Head(entries).url[1],
                  title |-> IF IsSome(Head(entries).title)
                            THEN Head(entries).title[1] ELSE default_title]>>
          ELSE <<>>)
         \o Offered(Tail(entries), kind, default_title)

RECURSIVE OfferedByContents(_)
OfferedByContents(contents) ==
    IF Len(contents) = 0 THEN <<>>
    ELSE (IF Head(contents).type \in {"output_text", "text"}
             /\ IsSome(Head(contents).annotations)
          THEN Offered(Head(contents).annotations[1], "annotation", "Source")
          ELSE <<>>)
         \o OfferedByContents(Tail(contents))

\* every url-carrying annotation and result of the reply, in traversal order
RECURSIVE OfferedByOutputs(_)
OfferedByOutputs(outputs) ==
    IF Len(outputs) = 0 THEN <<>>
    ELSE LET out == Head(outputs) IN
         (CASE out.type = "message" /\ IsSome(out.content) ->
                 OfferedByContents(out.content[1])
            [] out.type = "web_search_result" /\ IsSome(out.results) ->
                 Offered(out.results[1], "web_search_result", "Web Result")
            [] out.type = "x_search_result" /\ IsSome(out.results) ->
                 Offered(out.results[1], "x_search_result", "X Post")
            [] OTHER -> <<>>)
         \o OfferedByOutputs(Tail(outputs))

Offers == IF IsSome(response) /\ IsSome(response[1].output)
          THEN OfferedByOutputs(response[1].output[1]) ELSE <<>>

\* the run has printed a reply without error in text mode
PrintedText ==
    /\ pc = "exit"
    /\ exit_code = Some(0)
    /\ cli.output = "Text"
    /\ IsSome(response)
    /\ IsNone(response[1].error)

\* the run has printed a reply with a populated error in text mode
PrintedError ==
    /\ pc = "exit"
    /\ exit_code = Some(0)
    /\ cli.output = "Text"
    /\ IsSome(response)
    /\ IsSome(response[1].error)

\* C1: in text mode, for a reply without error, the printed source list
\* has exactly one line per distinct url offered by annotations,
\* web_search_result and x_search_result entries together, and that line
\* shows the title of the url's first occurrence in traversal order.
SourcesUniqueFirstTitleWins ==
    PrintedText =>
        LET offers == Offers
            urls == {offers[i].url : i \in 1..Len(offers)}
            first(u) == CHOOSE i \in 1..Len(offers) :
                          /\ offers[i].url = u
                          /\ \A j \in 1..(i - 1) : offers[j].url # u
            sources == Extract(response[1]).sources
        IN /\ CountOcc(stdout, "](") = Cardinality(urls)
           /\ \A u \in urls :
                /\ CountOcc(stdout, "](" \o u \o ")\n") = 1
                /\ CountOcc(stdout,
                       ". [" \o offers[first(u)].title \o "](" \o u \o ")\n") = 1
           /\ Len(sources) = Cardinality(urls)
           /\ \A i, j \in 1..Len(sources) :
                sources[i][2] = sources[j][2] => i = j

\* a url offered twice, by entries of different kinds and under different
\* titles, has been printed
SourcesUniqueWitness ==
    /\ PrintedText
    /\ \E i, j \in 1..Len(Offers) :
         /\ i < j
         /\ Offers[i].url = Offers[j].url
         /\ Offers[i].kind # Offers[j].kind
         /\ Offers[i].title # Offers[j].title

\* C2: in text mode, a reply whose error field is populated prints exactly
\* "Error: {message}\n" (message "Unknown error" when absent), whatever
\* output items and id it carries.
ErrorReplyPrintsOnlyErrorLine ==
    PrintedError =>
        LET message == response[1].error[1].message IN
        /\ stdout = (IF IsSome(message)
                     THEN "Error: " \o message[1] \o "\n"
                     ELSE "Error: Unknown error\n") \o "\n"
        /\ ~Contains(stdout, "Sources:")
        /\ ~Contains(stdout, "---")
        /\ ~Contains(stdout, "response_id")

\* an error reply that also carries an id, body text or sources was printed
ErrorReplyWitness ==
    /\ PrintedError
    /\ IsSome(response[1].id)
    /\ IsSome(response[1].output)
    /\ \/ Len(Offers) > 0
       \/ Extract([response[1] EXCEPT !.error = None]).output # ""

----------------------------------------------------------------------------
(* GrokRequest serialization alone: any GrokRequest value *)

\* the largest tools vector of a hand-built GrokRequest
MaxTools == 2

\* Tool values, as the unit tests build them
ToolValues ==
    {WebSearchTool,
     [type |-> "x_search", allowed_x_handles |-> None,
      excluded_x_handles |-> None, from_date |-> None, to_date |-> None,
      enable_image_understanding |-> None,
      enable_video_understanding |-> None],
     [type |-> "x_search", allowed_x_handles |-> Some(<<"user1", "user2">>),
      excluded_x_handles |-> None, from_date |-> Some("2025-01-01"),
      to_date |-> Some("2025-01-15"),
      enable_image_understanding |-> Some(TRUE),
      enable_video_understanding |-> Some(TRUE)],
     [type |-> "x_search", allowed_x_handles |-> Some(<<"elonmusk">>),
      excluded_x_handles |-> None, from_date |-> Some("2025-01-01"),
      to_date |-> None, enable_image_understanding |-> None,
      enable_video_understanding |-> None]}

\* Vec<Tool> of at most n tools
RECURSIVE ToolSeqs(_)
ToolSeqs(n) ==
    IF n = 0 THEN {<<>>}
    ELSE LET shorter == ToolSeqs(n - 1) IN
         shorter \cup {Append(s, t) : s \in shorter, t \in ToolValues}

\* Vec<Message> values
InputValues ==
    {<<Message("user", "chat")>>,
     <<Message("system", "Be concise."), Message("user", "test query")>>}

\* a create_request call that holds a GrokRequest to be sent
InitSerialize ==
    /\ pc = "built"
    /\ cli = AskCli("Text")
    /\ env_key = Some("xai-key")
    /\ args = MainCall(cli)
    /\ \E model \in {MODEL, REASONING_MODEL}, input \in InputValues,
          store \in BOOLEAN, tokens \in OptOf({4096, 8192}),
          previous \in OptOf({"resp_prev"}), tools \in ToolSeqs(MaxTools) :
         request = Some([model |-> model, input |-> input, store |-> store,
                         max_output_tokens |-> tokens,
                         previous_response_id |-> previous, tools |-> tools])
    /\ wire = None
    /\ posts = 0
    /\ response = None
    /\ stdout = ""
    /\ stderr = <<>>
    /\ exit_code = None

SpecSerialize == InitSerialize /\ [][PostRequest]_vars

----------------------------------------------------------------------------
(* Properties of mode resolution and of the built request *)

\* the primary modes the command line selects
NumModes(c) == FlagW(c) + OptW(c.command)

ModeOfFlag ==
    [search |-> "Search", ask |-> "Ask", think |-> "Think", chat |-> "Chat",
     x_search |-> "XSearch", x_ask |-> "XAsk"]

\* the selections of the command line: mode, front end, query, result limit
Selections(c) ==
    {[mode |-> ModeOfFlag[f], front |-> "flag", query |-> c[f][1],
      limit |-> DefaultMaxResults] :
        f \in {ModeFlags[i] : i \in {j \in 1..Len(ModeFlags) :
                                       IsSome(c[ModeFlags[j]])}}}
    \cup
    (IF IsNone(c.command) THEN {}
     ELSE {[mode |-> c.command[1].kind, front |-> "subcommand",
            query |-> c.command[1].query,
            limit |-> IF "max_results" \in DOMAIN c.command[1]
                      THEN c.command[1].max_results
                      ELSE DefaultMaxResults]})

\* the response ids the command line supplies, before or after a subcommand
SuppliedIds(c) ==
    {c.response_id[i] : i \in 1..Len(c.response_id)}
    \cup
    (IF IsSome(c.command) /\ "response_id" \in DOMAIN c.command[1]
     THEN {c.command[1].response_id[i] :
             i \in 1..Len(c.command[1].response_id)}
     ELSE {})

\* the query of the request's user message
UserQuery(r) == r.input[Len(r.input)].content

\* the selections whose query the built request carries
Served == {m \in Selections(cli) : m.query = UserQuery(request[1])}

ToolTypes(r) == [i \in 1..Len(r.tools) |-> r.tools[i].type]

ExpectedToolTypes(mode) ==
    CASE mode = "Chat" -> <<>>
      [] mode \in {"Search", "Ask", "Think"} -> <<"web_search">>
      [] mode \in {"XSearch", "XAsk"} -> <<"x_search">>

ExpectedBudget(mode) ==
    CASE mode \in {"Search", "XSearch"} -> 4096
      [] mode \in {"Ask", "Chat", "XAsk"} -> 8192
      [] mode = "Think" -> 16384

\* C3: mode resolution fails with a configuration error, building and
\* sending nothing, whenever zero or more than one primary mode is
\* selected; a request is built only when exactly one is selected.
ModeSelectionValidated ==
    /\ IsSome(request) => NumModes(cli) = 1
    /\ posts > 0 => NumModes(cli) = 1
    /\ (pc = "exit" /\ NumModes(cli) # 1) =>
          /\ exit_code = Some(1)
          /\ IsNone(request)
          /\ posts = 0

\* C4: with exactly one mode selected, by flag or by subcommand, the built
\* request carries the response id the command line supplies, unchanged,
\* and carries none when none is supplied.
PreviousResponseIdCopied ==
    (IsSome(request) /\ NumModes(cli) = 1) =>
        LET previous == request[1].previous_response_id IN
        IF SuppliedIds(cli) = {}
        THEN IsNone(previous)
        ELSE IsSome(previous) /\ previous[1] \in SuppliedIds(cli)

\* C5: the tool list of the built request is fixed by the mode it serves:
\* empty for Chat, one web_search descriptor for Search, Ask and Think, one
\* x_search descriptor for XSearch and XAsk; never both, never two of a kind.
ToolsFixedByMode ==
    IsSome(request) =>
        /\ \E m \in Served : ToolTypes(request[1]) = ExpectedToolTypes(m.mode)
        /\ NumModes(cli) = 1 =>
             \A m \in Selections(cli) :
                ToolTypes(request[1]) = ExpectedToolTypes(m.mode)
        /\ Len(request[1].tools) <= 1

\* an x-ask subcommand request with its single x_search descriptor was built
ToolsFixedByModeWitness ==
    /\ IsSome(request)
    /\ NumModes(cli) = 1
    /\ \E m \in Selections(cli) :
         /\ m.mode = "XAsk"
         /\ m.front = "subcommand"
         /\ ToolTypes(request[1]) = <<"x_search">>

\* C6: the model of the built request is the reasoning model if and only
\* if the mode it serves is Think, and the default model otherwise.
ReasoningModelIffThink ==
    IsSome(request) =>
        /\ \E m \in Served :
             request[1].model =
                 (IF m.mode = "Think" THEN "grok-4-1-fast"
                  ELSE "grok-4-1-fast-non-reasoning")
        /\ NumModes(cli) = 1 =>
             \A m \in Selections(cli) :
                /\ request[1].model = "grok-4-1-fast" <=> m.mode = "Think"
                /\ request[1].model = "grok-4-1-fast-non-reasoning"
                       <=> m.mode # "Think"

\* a Think request with a response id has been built
ReasoningModelWitness ==
    /\ IsSome(request)
    /\ NumModes(cli) = 1
    /\ IsSome(request[1].previous_response_id)
    /\ \E m \in Selections(cli) : m.mode = "Think"
    /\ request[1].model = "grok-4-1-fast"

\* C7: every built request has store = true and max_output_tokens set to
\* the budget of the mode it serves: 4096 for Search and XSearch, 8192 for
\* Ask, Chat and XAsk, 16384 for Think, by flag and by subcommand alike.
StoreAndBudgetByMode ==
    IsSome(request) =>
        /\ request[1].store = TRUE
        /\ IsSome(request[1].max_output_tokens)
        /\ \E m \in Served :
             request[1].max_output_tokens = Some(ExpectedBudget(m.mode))
        /\ NumModes(cli) = 1 =>
             \A m \in Selections(cli) :
                request[1].max_output_tokens = Some(ExpectedBudget(m.mode))

\* a Think subcommand request with its 16384 budget has been built
StoreAndBudgetWitness ==
    /\ IsSome(request)
    /\ NumModes(cli) = 1
    /\ \E m \in Selections(cli) : m.mode = "Think" /\ m.front = "subcommand"
    /\ request[1].max_output_tokens = Some(16384)

\* C8: a Search or XSearch request with result limit n (10 when none is
\* given) has a system instruction containing "Return up to n results",
\* and its tool list is [web_search] for Search, [x_search] for XSearch.
SearchInstructionCarriesLimit ==
    (IsSome(request) /\ NumModes(cli) = 1) =>
        \A m \in Selections(cli) :
            m.mode \in {"Search", "XSearch"} =>
                /\ Len(request[1].input) = 2
                /\ request[1].input[1].role = "system"
                /\ Contains(request[1].input[1].content,
                       "Return up to " \o ToString(m.limit) \o " results")
                /\ ToolTypes(request[1]) =
                       (IF m.mode = "Search" THEN <<"web_search">>
                        ELSE <<"x_search">>)

\* a search subcommand with --max-results 5 has been built
SearchInstructionWitness ==
    /\ IsSome(request)
    /\ NumModes(cli) = 1
    /\ \E m \in Selections(cli) : m.mode = "Search" /\ m.limit = 5
    /\ Contains(request[1].input[1].content, "Return up to 5 results")

----------------------------------------------------------------------------
(* Properties of the wire form *)

\* no key is written twice
KeysUnique(obj) ==
    \A i, j \in 1..Len(obj.m) : obj.m[i].k = obj.m[j].k => i = j

\* C9: in the serialized request, max_output_tokens, previous_response_id
\* and tools are present if and only if set / non-empty, with their value,
\* never as null or as an empty array; model, input and store are always
\* present.
OptionalKeysPresentIffSet ==
    IsSome(wire) =>
        LET body == wire[1].body
            r == request[1]
        IN /\ KeysUnique(body)
           /\ HasKey(body, "model") /\ Get(body, "model") = JString(r.model)
           /\ HasKey(body, "input") /\ Get(body, "input").json = "array"
           /\ HasKey(body, "store") /\ Get(body, "store") = JBool(r.store)
           /\ HasKey(body, "max_output_tokens") <=> IsSome(r.max_output_tokens)
           /\ IsSome(r.max_output_tokens) =>
                Get(body, "max_output_tokens") = JNumber(r.max_output_tokens[1])
           /\ HasKey(body, "previous_response_id")
                <=> IsSome(r.previous_response_id)
           /\ IsSome(r.previous_response_id) =>
                Get(body, "previous_response_id")
                    = JString(r.previous_response_id[1])
           /\ HasKey(body, "tools") <=> Len(r.tools) > 0
           /\ Len(r.tools) > 0 =>
                /\ Get(body, "tools").json = "array"
                /\ Len(Get(body, "tools").a) = Len(r.tools)
           /\ \A i \in 1..Len(body.m) : body.m[i].v.json # "null"

\* a request with neither budget, previous id nor tools went out with the
\* three mandatory keys only
OptionalKeysWitness ==
    /\ IsSome(wire)
    /\ IsNone(request[1].max_output_tokens)
    /\ IsNone(request[1].previous_response_id)
    /\ Len(request[1].tools) = 0
    /\ Len(wire[1].body.m) = 3

\* the filter options behind selection m: the top-level options for a
\* flag, the subcommand's own for a subcommand
FilterOf(c, m) == IF m.front = "flag" THEN c ELSE c.command[1]

\* descriptor d is the wire form of the filter f
DescribesFilter(d, f) ==
    /\ KeysUnique(d)
    /\ Get(d, "type") = JString("x_search")
    /\ HasKey(d, "allowed_x_handles") <=> IsSome(f.allowed_handles)
    /\ IsSome(f.allowed_handles) =>
         Get(d, "allowed_x_handles") = JStrings(f.allowed_handles[1])
    /\ HasKey(d, "excluded_x_handles") <=> IsSome(f.excluded_handles)
    /\ IsSome(f.excluded_handles) =>
         Get(d, "excluded_x_handles") = JStrings(f.excluded_handles[1])
    /\ HasKey(d, "from_date") <=> IsSome(f.from_date)
    /\ IsSome(f.from_date) => Get(d, "from_date") = JString(f.from_date[1])
    /\ HasKey(d, "to_date") <=> IsSome(f.to_date)
    /\ IsSome(f.to_date) => Get(d, "to_date") = JString(f.to_date[1])
    /\ HasKey(d, "enable_image_understanding") <=> f.enable_images
    /\ f.enable_images => Get(d, "enable_image_understanding") = JBool(TRUE)
    /\ HasKey(d, "enable_video_understanding") <=> f.enable_video
    /\ f.enable_video => Get(d, "enable_video_understanding") = JBool(TRUE)
    /\ \A i \in 1..Len(d.m) :
         /\ d.m[i].v.json # "null"
         /\ d.m[i].v # JBool(FALSE)
         /\ d.m[i].v.json = "array" => Len(d.m[i].v.a) > 0

\* C10: the serialized x-search descriptor holds allowed_x_handles,
\* excluded_x_handles, from_date and to_date if and only if the filter
\* supplies them, with the supplied value, and the two understanding flags
\* as true if and only if set; it never holds false, null or an empty list.
XSearchDescriptorFollowsFilter ==
    (IsSome(wire) /\ args[1].use_x_search) =>
        LET d == Get(wire[1].body, "tools").a[1] IN
        /\ HasKey(wire[1].body, "tools")
        /\ Len(Get(wire[1].body, "tools").a) = 1
        /\ DescribesFilter(d, UnwrapOr(args[1].x_search_config,
                                       XSearchConfigDefault))
        /\ NumModes(cli) = 1 =>
             \A m \in Selections(cli) : DescribesFilter(d, FilterOf(cli, m))

\* x-ask with allowed handle alice and a from_date but no to_date went out
XSearchDescriptorWitness ==
    /\ IsSome(wire)
    /\ NumModes(cli) = 1
    /\ \E m \in Selections(cli) :
         /\ m.mode = "XAsk"
         /\ FilterOf(cli, m).allowed_handles = Some(<<"alice">>)
         /\ FilterOf(cli, m).from_date = Some("2024-01-01")
         /\ IsNone(FilterOf(cli, m).to_date)
    /\ LET d == Get(wire[1].body, "tools").a[1] IN
       /\ Get(d, "allowed_x_handles") = JStrings(<<"alice">>)
       /\ Get(d, "from_date") = JString("2024-01-01")
       /\ ~HasKey(d, "to_date")

----------------------------------------------------------------------------
(* Properties of the layout of the text output *)

\* the lines "1. [title](url)\n" .. "k. [title](url)\n" of the first k sources
RECURSIVE NumberedLines(_, _)
NumberedLines(sources, k) ==
    IF k = 0 THEN ""
    ELSE NumberedLines(sources, k - 1)
         \o ToString(k) \o ". [" \o sources[k][1] \o "](" \o sources[k][2] \o ")\n"

\* C11: in text mode, for a reply without error, the output is exactly the
\* body text, then "\n\nSources:\n" and the lines numbered 1..k in source-list
\* order if and only if there are sources, then always "\n---\n", then the
\* line "To follow up, use response_id: {id}\n" if and only if the id is
\* present, and nothing else (println! ends it with one newline).
TextLayoutExact ==
    PrintedText =>
        LET st == Extract(response[1])
            k == Len(st.sources)
            id == response[1].id
        IN /\ stdout =
                st.output
                \o (IF k > 0 THEN "\n\nSources:\n" \o NumberedLines(st.sources, k)
                    ELSE "")
                \o "\n---\n"
                \o (IF IsSome(id)
                    THEN "To follow up, use response_id: " \o id[1] \o "\n"
                    ELSE "")
                \o "\n"
           /\ CountOcc(stdout, "\n---\n") = 1
           /\ CountOcc(stdout, "Sources:") = (IF k > 0 THEN 1 ELSE 0)
           /\ CountOcc(stdout, "To follow up") = (IF IsSome(id) THEN 1 ELSE 0)
           /\ \A n \in 1..k : CountOcc(stdout, "\n" \o ToString(n) \o ". [") = 1
           /\ ~Contains(stdout, "\n0. [")
           /\ ~Contains(stdout, "\n" \o ToString(k + 1) \o ". [")

\* a reply with body text, two sources and an id was printed in text mode
TextLayoutWitness ==
    /\ PrintedText
    /\ Len(Extract(response[1]).sources) = 2
    /\ Extract(response[1]).output # ""
    /\ IsSome(response[1].id)
    /\ Contains(stdout, "\n2. [")

----------------------------------------------------------------------------
(* Properties of the traversal order *)

\* the text of the output_text / text elements of a content list, in order
RECURSIVE TextOfContents(_)
TextOfContents(contents) ==
    IF Len(contents) = 0 THEN ""
    ELSE (IF Head(contents).type \in {"output_text", "text"}
             /\ IsSome(Head(contents).text)
          THEN Head(contents).text[1] ELSE "")
         \o TextOfContents(Tail(contents))

\* the text of the message items of an output list, in order
RECURSIVE TextOfOutputs(_)
TextOfOutputs(outputs) ==
    IF Len(outputs) = 0 THEN ""
    ELSE (IF Head(outputs).type = "message" /\ IsSome(Head(outputs).content)
          THEN TextOfContents(Head(outputs).content[1]) ELSE "")
         \o TextOfOutputs(Tail(outputs))

\* the offers that are the first of their url, as <<title, url>> pairs
FirstSeen(offers) ==
    LET firsts == {i \in 1..Len(offers) :
                     \A j \in 1..(i - 1) : offers[j].url # offers[i].url}
        nth[k \in 0..Cardinality(firsts)] ==
            IF k = 0 THEN 0
            ELSE CHOOSE i \in firsts :
                   /\ i > nth[k - 1]
                   /\ \A j \in firsts : j > nth[k - 1] => i <= j
    IN [k \in 1..Cardinality(firsts) |->
           <<offers[nth[k]].title, offers[nth[k]].url>>]

\* the position of the first occurrence of t in s, 0 when there is none
FirstIndex(s, t) ==
    LET at == {i \in 1..(Len(s) - Len(t) + 1) : SubSeq(s, i, i + Len(t) - 1) = t}
    IN IF at = {} THEN 0 ELSE CHOOSE i \in at : \A j \in at : i <= j

\* C12: for a reply without error, the body is the concatenation without
\* separator of the text of the output_text / text elements of the message
\* items in output-list order, the source list is in first-seen order over
\* the one traversal of the output list (a source of an earlier item comes
\* before a source first seen in a later item), and the body is printed
\* before the Sources section wherever the message item stands in the list.
BodyAndSourcesInTraversalOrder ==
    PrintedText =>
        LET outputs == UnwrapOr(response[1].output, <<>>)
            body == TextOfOutputs(outputs)
            expected == FirstSeen(Offers)
            st == Extract(response[1])
        IN /\ st.output = body
           /\ st.sources = expected
           /\ SubSeq(stdout, 1, Len(body)) = body
           /\ Len(expected) > 0 =>
                SubSeq(stdout, Len(body) + 1, Len(body) + 11) = "\n\nSources:\n"
           /\ \A i, j \in 1..Len(expected) :
                i < j =>
                  LET at(k) == FirstIndex(stdout,
                                 "](" \o expected[k][2] \o ")\n")
                  IN 0 < at(i) /\ at(i) < at(j)

\* a reply whose result item precedes its message item was printed, with a
\* non-empty body and a source taken from the result item
TraversalOrderWitness ==
    /\ PrintedText
    /\ LET outputs == UnwrapOr(response[1].output, <<>>) IN
       /\ Len(outputs) = 2
       /\ outputs[1].type = "x_search_result"
       /\ outputs[2].type = "message"
       /\ TextOfOutputs(outputs) # ""
       /\ Len(Offers) = 1
       /\ Offers[1].kind = "x_search_result"

----------------------------------------------------------------------------
(* Properties of the JSON output *)

\* the run has printed a reply in JSON mode
PrintedJson ==
    /\ pc = "exit"
    /\ exit_code = Some(0)
    /\ cli.output = "Json"
    /\ IsSome(response)

\* every annotation of a content list, whatever the kind of the element
RECURSIVE LinksOfContents(_)
LinksOfContents(contents) ==
    IF Len(contents) = 0 THEN <<>>
    ELSE UnwrapOr(Head(contents).annotations, <<>>)
         \o LinksOfContents(Tail(contents))

\* every annotation and result entry of an output list, whatever the kind
\* of the item
RECURSIVE LinksOfOutputs(_)
LinksOfOutputs(outputs) ==
    IF Len(outputs) = 0 THEN <<>>
    ELSE LinksOfContents(UnwrapOr(Head(outputs).content, <<>>))
         \o UnwrapOr(Head(outputs).results, <<>>)
         \o LinksOfOutputs(Tail(outputs))

\* C13: in JSON mode the output is the pretty-printed serialization of the
\* reply as received: every annotation and result entry is printed (a url
\* as often as it occurs), every output item is printed under its kind,
\* known or not, a populated error is printed as the error member and not
\* as an "Error: ..." line, and the output has no Sources section, no
\* "---" trailer and no follow-up line.
JsonOutputIsRawResponse ==
    PrintedJson =>
        LET resp == response[1]
            outputs == UnwrapOr(resp.output, <<>>)
            links == LinksOfOutputs(outputs)
            urls == {links[i].url[1] : i \in {j \in 1..Len(links) :
                                                  IsSome(links[j].url)}}
        IN /\ stdout = Pretty(SerializeResponse(resp), 0) \o "\n"
           /\ SubSeq(stdout, 1, 10) = "{\n  \"id\": "
           /\ CountOcc(stdout, "\"url\": ") = Len(links)
           /\ \A u \in urls :
                CountOcc(stdout, "\"url\": \"" \o u \o "\"") =
                    Cardinality({i \in 1..Len(links) : links[i].url = Some(u)})
           /\ \A k \in ItemKinds :
                CountOcc(stdout, "\"type\": \"" \o k \o "\"") =
                    Cardinality({i \in 1..Len(outputs) : outputs[i].type = k})
           /\ IsSome(resp.error) =>
                /\ Contains(stdout, "\n  \"error\": {\n    \"message\": ")
                /\ ~Contains(stdout, "Error: ")
           /\ IsNone(resp.error) => Contains(stdout, "\n  \"error\": null\n}")
           /\ ~Contains(stdout, "Sources:")
           /\ ~Contains(stdout, "\n---\n")
           /\ ~Contains(stdout, "To follow up, use response_id")

\* a reply with an item of unknown kind that carries one url twice was
\* printed in JSON mode
JsonOutputWitness ==
    /\ PrintedJson
    /\ LET outputs == UnwrapOr(response[1].output, <<>>) IN
       /\ Len(outputs) = 1
       /\ outputs[1].type = "reasoning"
       /\ \E i, j \in 1..Len(LinksOfOutputs(outputs)) :
            /\ i < j
            /\ IsSome(LinksOfOutputs(outputs)[i].url)
            /\ LinksOfOutputs(outputs)[i].url = LinksOfOutputs(outputs)[j].url
    /\ CountOcc(stdout, "\"url\": \"https://a.example\"") = 2

----------------------------------------------------------------------------
(* The run as a whole: what happens before, during and after the call *)

\* the invocation selects no mode, or XAI_API_KEY is not set
ConfigurationError == IsNone(MainCall(cli)) \/ IsNone(env_key)

\* the run has ended with exit status 1
FailedExit == pc = "exit" /\ exit_code = Some(1)

\* C14: a run without a selected mode or without XAI_API_KEY can only go on
\* to exit status 1: the step that reports the error is the one step it can
\* take, and at no point of such a run has a request been built or sent, a
\* reply been received or anything been written to standard output.
ConfigurationErrorBeforeNetwork ==
    /\ ConfigurationError =>
          /\ pc \in {"main", "create_request", "exit"}
          /\ IsNone(request)
          /\ IsNone(wire)
          /\ posts = 0
          /\ IsNone(response)
          /\ stdout = ""
          /\ pc = "exit" => exit_code = Some(1) /\ Len(stderr) = 1
          /\ (pc = "main" /\ IsNone(MainCall(cli))) =>
                (ENABLED NoCommand) /\ ~(ENABLED ResolveMode)
          /\ (pc = "main" /\ IsSome(MainCall(cli))) => ENABLED ResolveMode
          /\ pc = "create_request" =>
                (ENABLED MissingApiKey) /\ ~(ENABLED BuildGrokRequest)
    /\ (IsSome(wire) \/ posts > 0) =>
          IsSome(env_key) /\ IsSome(MainCall(cli))

\* a run with a mode selected and XAI_API_KEY unset has ended: create_request
\* was entered and returned the error
ConfigurationErrorWitness ==
    /\ FailedExit
    /\ IsNone(env_key)
    /\ IsSome(args)
    /\ Len(stderr) = 1

\* C15: a run posts at most once, whatever flags and subcommand are given;
\* standard output is written only after the call has completed and its
\* body has been parsed; a run that has ended takes no further step, so a
\* failed call is not repeated.
AtMostOnePost ==
    /\ posts \in {0, 1}
    /\ posts = 1 <=> IsSome(wire)
    /\ posts = 1 <=> pc \in {"sending", "parsing", "format"}
                     \/ (pc = "exit" /\ IsSome(request))
    /\ pc # "built" => ~(ENABLED PostRequest)
    /\ pc \in {"format", "exit"} /\ IsSome(response) =>
          /\ posts = 1
          /\ stderr = <<"Request completed in 0.42s">>
    /\ stdout # "" =>
          /\ pc = "exit"
          /\ posts = 1
          /\ IsSome(response)
          /\ stderr = <<"Request completed in 0.42s">>
    /\ pc = "exit" => ~(ENABLED Next)

\* a run given two shorthand flags and a subcommand has posted once and
\* printed the reply
AtMostOnePostWitness ==
    /\ pc = "exit"
    /\ exit_code = Some(0)
    /\ NumModes(cli) = 3
    /\ IsSome(cli.command)
    /\ posts = 1
    /\ stdout # ""

\* the run has reported a failure of the call or of parsing its body
TransportOrParseFailure ==
    \E i \in 1..Len(stderr) :
        stderr[i] \in {"Error: Failed to send request",
                       "Error: Failed to parse response"}

\* C16: when sending the request fails or the reply body does not parse,
\* the run ends with exit status 1 and standard output stays empty:
\* format_response is not reached.
FailureEmitsNothing ==
    /\ TransportOrParseFailure =>
          /\ pc = "exit"
          /\ exit_code = Some(1)
          /\ stdout = ""
          /\ IsNone(response)
          /\ posts = 1
          /\ ~(ENABLED PrintResponse)
    /\ (pc \in {"sending", "parsing"}) =>
          /\ stdout = ""
          /\ ~(ENABLED PrintResponse)
    /\ (pc = "exit" /\ posts = 1 /\ IsNone(response)) =>
          TransportOrParseFailure

\* the call completed and the body did not parse: the run has failed
FailureEmitsNothingWitness ==
    /\ pc = "exit"
    /\ stderr = <<"Request completed in 0.42s",
                  "Error: Failed to parse response">>
    /\ exit_code = Some(1)
    /\ stdout = ""

\* the reply was parsed and its error field is populated
ApiErrorReply == IsSome(response) /\ IsSome(response[1].error)

\* C17: a parsed reply whose error field is populated does not abort the
\* run: in every mode the run goes on to print the formatted reply (the
\* "Error: ..." line in text mode) and ends with exit status 0.
ApiErrorAbsorbed ==
    ApiErrorReply =>
        /\ pc \in {"format", "exit"}
        /\ pc = "format" => exit_code = None /\ stdout = ""
        /\ pc = "exit" =>
             /\ exit_code = Some(0)
             /\ stdout = format_response(response[1], cli.output) \o "\n"
             /\ cli.output = "Text" =>
                  stdout = "Error: "
                           \o UnwrapOr(response[1].error[1].message,
                                       "Unknown error")
                           \o "\n\n"
             /\ cli.output = "Json" =>
                  Contains(stdout, "\"error\": {\n    \"message\": ")
        /\ ~TransportOrParseFailure

\* a think run received a reply with a populated error, printed the error
\* line and ended with exit status 0
ApiErrorAbsorbedWitness ==
    /\ ApiErrorReply
    /\ pc = "exit"
    /\ exit_code = Some(0)
    /\ cli.output = "Text"
    /\ request[1].model = REASONING_MODEL
    /\ stdout = "Error: Rate limit exceeded\n\n"

----------------------------------------------------------------------------
(* Properties of the message list *)

\* the number of messages of a list with the given role
RoleCount(input, role) ==
    Cardinality({i \in 1..Len(input) : input[i].role = role})

\* C18: the message list of every built request is one system message
\* first if and only if the mode served is not Chat, followed by exactly
\* one user message whose content is the query as given, the empty query
\* included; the user message is last and a Chat request has nothing else.
MessageListShape ==
    IsSome(request) =>
        LET input == request[1].input IN
        /\ Len(input) \in {1, 2}
        /\ input[Len(input)].role = "user"
        /\ RoleCount(input, "user") = 1
        /\ RoleCount(input, "system") = Len(input) - 1
        /\ Len(input) = 2 => input[1].role = "system"
        /\ input[Len(input)].content = args[1].query
        /\ \E m \in Selections(cli) :
             /\ input[Len(input)].content = m.query
             /\ m.mode = "Chat" <=> Len(input) = 1
        /\ NumModes(cli) = 1 =>
             \A m \in Selections(cli) :
                /\ input[Len(input)].content = m.query
                /\ m.mode = "Chat" <=> input = <<Message("user", m.query)>>
        /\ IsSome(wire) =>
             Get(wire[1].body, "input") =
                JArray([i \in 1..Len(input) |->
                    JObject(<<Member("role", JString(input[i].role)),
                              Member("content", JString(input[i].content))>>)])

\* a Chat request with the empty query was built: its only message is the
\* user message with empty content
MessageListWitness ==
    /\ IsSome(request)
    /\ NumModes(cli) = 1
    /\ \E m \in Selections(cli) : m.mode = "Chat" /\ m.query = ""
    /\ request[1].input = <<Message("user", "")>>

----------------------------------------------------------------------------
(* Properties of what the text output leaves out *)

\* the elements of a content list that are output_text or text
TextContents(contents) ==
    SelectSeq(contents, LAMBDA c : c.type \in {"output_text", "text"})

\* an output item without the field its kind does not use, a message also
\* without its elements of other kinds
PrunedItem(out) ==
    IF out.type = "message"
    THEN [type |-> out.type,
          content |-> IF IsNone(out.content) THEN None
                      ELSE Some(TextContents(out.content[1])),
          results |-> None]
    ELSE [type |-> out.type, content |-> None, results |-> out.results]

\* the reply without its items of other kinds, each remaining item pruned
Pruned(resp) ==
    [resp EXCEPT !.output =
        IF IsNone(@) THEN @
        ELSE Some(LET kept == SelectSeq(@[1], LAMBDA out :
                                  out.type \in {"message", "web_search_result",
                                                "x_search_result"})
                  IN [i \in 1..Len(kept) |-> PrunedItem(kept[i])])]

\* the reply carries something the text output has to leave out
CarriesIgnored(resp) ==
    /\ IsSome(resp.output)
    /\ \E i \in 1..Len(resp.output[1]) :
         LET out == resp.output[1][i] IN
         \/ out.type \notin {"message", "web_search_result", "x_search_result"}
            /\ (IsSome(out.content) \/ IsSome(out.results))
         \/ out.type = "message" /\ IsSome(out.results)
         \/ out.type # "message" /\ IsSome(out.content)
         \/ /\ out.type = "message"
            /\ IsSome(out.content)
            /\ \E j \in 1..Len(out.content[1]) :
                 out.content[1][j].type \notin {"output_text", "text"}

\* C19: in text mode, for a reply without error, an item that is not a
\* message, web_search_result or x_search_result adds neither text nor
\* sources, a content element that is not output_text or text adds neither
\* its text nor its annotations, and the results of a message and the
\* content of a result item are not read: the output is the output for
\* the reply with all of these removed.
OnlyThreeKindsContribute ==
    PrintedText =>
        LET resp == response[1]
            kept == Pruned(resp)
            outputs == UnwrapOr(resp.output, <<>>)
        IN /\ stdout = format_response(kept, "Text") \o "\n"
           /\ Extract(resp) = Extract(kept)
           /\ ~Contains(stdout, "stray")
           /\ ~Contains(stdout, "Gamma")
           /\ ~Contains(stdout, "c.example")
           /\ ~Contains(stdout, "No.")
           /\ (\A i \in 1..Len(outputs) :
                 outputs[i].type \notin {"message", "web_search_result",
                                         "x_search_result"})
                => stdout = "\n---\n"
                            \o (IF IsSome(resp.id)
                                THEN "To follow up, use response_id: "
                                     \o resp.id[1] \o "\n"
                                ELSE "")
                            \o "\n"

\* a reply was printed whose item of another kind carries a url and whose
\* message carries a refusal element with text: neither shows
OnlyThreeKindsWitness ==
    /\ PrintedText
    /\ CarriesIgnored(response[1])
    /\ LET outputs == response[1].output[1] IN
       /\ Len(outputs) = 2
       /\ \E i \in 1..2 :
            /\ outputs[i].type = "reasoning"
            /\ IsSome(outputs[i].results)
            /\ IsSome(outputs[i].results[1][1].url)
       /\ \E i \in 1..2 :
            /\ outputs[i].type = "message"
            /\ IsSome(outputs[i].content)
            /\ outputs[i].content[1][1].type = "refusal"
    /\ ~Contains(stdout, "Sources:")

====
